---- MODULE Spec2Model ----
(***************************************************************************)
(* A model of citation_converter.py: the APA -> LaTeX citation converter.  *)
(*                                                                         *)
(* Text is a TLA+ string; Len, \o and SubSeq act on it as Python's len,    *)
(* + and slicing do.  The regular expressions of the source are written    *)
(* out as scanning operators, each matching what the pattern matches       *)
(* (leftmost, with the pattern's greedy or lazy choices).                  *)
(*                                                                         *)
(* Characters outside ASCII are written with stand-ins, one per code       *)
(* point, that occur nowhere else in the modelled text:                    *)
(*     RSQUO  U+2019    LSQUO  U+2018                                      *)
(*     CHECK  U+2705    WARN   U+26A0    VS16  U+FE0F                       *)
(***************************************************************************)
EXTENDS Naturals, Sequences, FiniteSets, TLC

----------------------------------------------------------------------------
(* Characters and character classes                                        *)

Ch(s, i) == SubSeq(s, i, i)

UpperAlpha == "ABCDEFGHIJKLMNOPQRSTUVWXYZ"
LowerAlpha == "abcdefghijklmnopqrstuvwxyz"
DigitChars == "0123456789"

Upper == {Ch(UpperAlpha, i) : i \in 1..Len(UpperAlpha)}
Lower == {Ch(LowerAlpha, i) : i \in 1..Len(LowerAlpha)}
Digit == {Ch(DigitChars, i) : i \in 1..Len(DigitChars)}

RSQUO == "@"
LSQUO == "~"
CHECK == "#"
WARN == "!"
VS16 == "^"

\* \s
Space == {" ", "\n", "\t", "\r", "\f"}
\* \w
Word == Upper \cup Lower \cup Digit \cup {"_"}

\* str.lower(), one character
LowerOf == [c \in Upper |-> Ch(LowerAlpha, CHOOSE i \in 1..Len(UpperAlpha) : Ch(UpperAlpha, i) = c)]
lowerChar(c) == IF c \in Upper THEN LowerOf[c] ELSE c

----------------------------------------------------------------------------
(* Python's string methods                                                 *)

\* s[i-1:] for a 1-based i
From(s, i) == SubSeq(s, i, Len(s))

RECURSIVE lower(_)
lower(s) == IF s = "" THEN "" ELSE lowerChar(Ch(s, 1)) \o lower(From(s, 2))

RECURSIVE lstrip(_)
lstrip(s) == IF s # "" /\ Ch(s, 1) \in Space THEN lstrip(From(s, 2)) ELSE s

RECURSIVE rstrip(_)
rstrip(s) ==
    IF s # "" /\ Ch(s, Len(s)) \in Space THEN rstrip(SubSeq(s, 1, Len(s) - 1)) ELSE s

strip(s) == rstrip(lstrip(s))

\* s.startswith(p, i-1)
StartsAt(s, i, p) == i >= 1 /\ i + Len(p) - 1 <= Len(s) /\ SubSeq(s, i, i + Len(p) - 1) = p

\* s.find(p, i-1) + 1: the first place at or after i where p occurs, 0 if none
RECURSIVE find(_, _, _)
find(s, p, i) ==
    IF i + Len(p) - 1 > Len(s) THEN 0
    ELSE IF StartsAt(s, i, p) THEN i
    ELSE find(s, p, i + 1)

\* p in s
contains(s, p) == find(s, p, 1) # 0

\* s[:i-1] if i is a place of s, s if i is 0
before(s, i) == IF i = 0 THEN s ELSE SubSeq(s, 1, i - 1)

\* s[i-1+n:] if i is a place of s, the empty string if i is 0
after(s, i, n) == IF i = 0 THEN "" ELSE From(s, i + n)

\* s.replace(p, r), p not empty
RECURSIVE replace(_, _, _)
replace(s, p, r) ==
    IF ~contains(s, p) THEN s
    ELSE before(s, find(s, p, 1)) \o r \o replace(after(s, find(s, p, 1), Len(p)), p, r)

\* s.split(p)[0]
splitFirst(s, p) == before(s, find(s, p, 1))

\* s.split(p): every piece, empty ones kept
RECURSIVE split(_, _)
split(s, p) ==
    IF ~contains(s, p) THEN <<s>>
    ELSE <<before(s, find(s, p, 1))>> \o split(after(s, find(s, p, 1), Len(p)), p)

\* s.split(): the maximal runs of non-whitespace characters
\* the last place of the run of non-whitespace characters that holds place i
RECURSIVE wordEnd(_, _)
wordEnd(s, i) == IF i < Len(s) /\ Ch(s, i + 1) \notin Space THEN wordEnd(s, i + 1) ELSE i

\* s.split() for an s that does not start with whitespace
RECURSIVE words(_)
words(t) ==
    IF t = "" THEN <<>>
    ELSE <<SubSeq(t, 1, wordEnd(t, 1))>> \o words(lstrip(From(t, wordEnd(t, 1) + 1)))

\* s.split(): the maximal runs of non-whitespace characters
tokens(s) == words(lstrip(s))

\* xs[-1]
lastItem(xs) == xs[Len(xs)]

lastToken(s) == lastItem(tokens(s))

\* s.splitlines() for the line break "\n"; a final line break ends the last line
RECURSIVE splitlines(_)
splitlines(s) ==
    IF s = "" THEN <<>>
    ELSE <<splitFirst(s, "\n")>> \o splitlines(after(s, find(s, "\n", 1), 1))

\* sep.join(xs)
RECURSIVE join(_, _)
join(xs, sep) ==
    IF xs = <<>> THEN ""
    ELSE IF Len(xs) = 1 THEN xs[1]
    ELSE xs[1] \o sep \o join(Tail(xs), sep)

\* str(n) for n >= 0
RECURSIVE str(_)
str(n) == IF n < 10 THEN Ch(DigitChars, n + 1) ELSE str(n \div 10) \o Ch(DigitChars, (n % 10) + 1)

----------------------------------------------------------------------------
(* Pieces of the regular expressions                                       *)

\* re.sub(r'\s+', ' ', s)
RECURSIVE collapseSpace(_)
collapseSpace(s) ==
    IF s = "" THEN ""
    ELSE IF Ch(s, 1) \in Space THEN " " \o collapseSpace(lstrip(s))
    ELSE Ch(s, 1) \o collapseSpace(From(s, 2))

\* \d{4} at i
FourDigits(s, i) == i + 3 <= Len(s) /\ \A k \in i..(i + 3) : Ch(s, k) \in Digit

\* \d{4}[a-z]? at i when the pattern goes on with the character close: the length
\* of the year token (5 with the letter, 4 without), 0 if there is no match
YearThen(s, i, close) ==
    IF ~FourDigits(s, i) THEN 0
    ELSE IF i + 5 <= Len(s) /\ Ch(s, i + 4) \in Lower /\ Ch(s, i + 5) = close THEN 5
    ELSE IF i + 4 <= Len(s) /\ Ch(s, i + 4) = close THEN 4
    ELSE 0

\* \d{4}[a-z]?$ at i: the year token runs to the end of s
YearToEnd(s, i) ==
    /\ FourDigits(s, i)
    /\ \/ i + 3 = Len(s)
       \/ i + 4 = Len(s) /\ Ch(s, i + 4) \in Lower

\* re.search(r'\d{4}[a-z]?', s) is not None
RECURSIVE hasYear(_, _)
hasYear(s, i) ==
    IF i + 3 > Len(s) THEN FALSE
    ELSE IF FourDigits(s, i) THEN TRUE
    ELSE hasYear(s, i + 1)

\* re.search(r'\((\d{4}[a-z]?)\)\.?', s): the leftmost match at or after i, as
\* [start, end, year] with end the place after the match; start 0 if none
yearParenAt(s, i, n) ==
    [start |-> i,
     end |-> IF StartsAt(s, i + n + 2, ".") THEN i + n + 3 ELSE i + n + 2,
     year |-> SubSeq(s, i + 1, i + n)]

RECURSIVE yearParen(_, _)
yearParen(s, i) ==
    IF i > Len(s) THEN [start |-> 0, end |-> 0, year |-> ""]
    ELSE IF Ch(s, i) = "(" /\ YearThen(s, i + 1, ")") # 0
         THEN yearParenAt(s, i, YearThen(s, i + 1, ")"))
    ELSE yearParen(s, i + 1)

----------------------------------------------------------------------------
(* normalize_title, normalize_author, parse_reference                      *)

\* re.sub(r'[RSQUO LSQUO]', "'", title)
RECURSIVE straightenQuotes(_)
straightenQuotes(s) ==
    IF s = "" THEN ""
    ELSE (IF Ch(s, 1) \in {RSQUO, LSQUO} THEN "'" ELSE Ch(s, 1)) \o straightenQuotes(From(s, 2))

\* re.sub(r'[^\w\s]', ' ', title)
RECURSIVE blankPunctuation(_)
blankPunctuation(s) ==
    IF s = "" THEN ""
    ELSE (IF Ch(s, 1) \in Word \cup Space THEN Ch(s, 1) ELSE " ") \o blankPunctuation(From(s, 2))

normalize_title(title) ==
    IF title = "" THEN ""
    ELSE strip(collapseSpace(blankPunctuation(straightenQuotes(lower(title)))))

\* re.sub(r'[^a-z\s&]', '', author_str)
RECURSIVE keepAuthorChars(_)
keepAuthorChars(s) ==
    IF s = "" THEN ""
    ELSE (IF Ch(s, 1) \in Lower \cup Space \cup {"&"} THEN Ch(s, 1) ELSE "")
             \o keepAuthorChars(From(s, 2))

normalize_author(author_str) ==
    IF author_str = "" THEN ""
    ELSE strip(collapseSpace(keepAuthorChars(lower(replace(author_str, "\\&", "&")))))

NotFound == <<"Author Not Found", "Year Not Found", "Title Not Found">>

\* the three components, year_match being the match of the year pattern in line
referenceParts(line, year_match) ==
    IF year_match.start = 0 THEN NotFound
    ELSE <<strip(SubSeq(line, 1, year_match.start - 1)),
           year_match.year,
           normalize_title(strip(splitFirst(From(line, year_match.end), ".")))>>

\* the line with its escaped ampersands replaced, and its year match
referenceOf(line) == referenceParts(line, yearParen(line, 1))

\* [authors_part, year, normalized_title]
parse_reference(reference_line) ==
    IF reference_line = "" THEN NotFound
    ELSE referenceOf(replace(reference_line, "\\&", "&"))

----------------------------------------------------------------------------
(* The reference list and the bibliography                                 *)

\* Python's None where the code only tests it with "not": the empty string
None == ""

\* ref_authors.split(',')[0].split('&')[0].split(' and ')[0].strip()
firstRefAuthor(ref_authors) ==
    strip(splitFirst(splitFirst(splitFirst(ref_authors, ","), "&"), " and "))

\* the if / elif / elif chain on the two authors and their split() lists
matchTiers(first_ref_author_norm, target_author, ref_terms, target_terms) ==
    IF first_ref_author_norm = target_author THEN TRUE
    ELSE IF ref_terms # <<>> /\ target_terms # <<>>
         THEN lastItem(ref_terms) = lastItem(target_terms)
    ELSE \E k \in 1..Len(ref_terms) : contains(target_author, ref_terms[k])

\* match_found of get_reference_line_by_author_year
matchFound(first_ref_author_norm, target_author) ==
    /\ target_author # ""
    /\ matchTiers(first_ref_author_norm, target_author,
                  tokens(first_ref_author_norm), tokens(target_author))

\* "if match_found and ref_year == year_part" for a parsed line
lineMatches(parsed, target_author, year_part) ==
    /\ parsed[2] = year_part
    /\ matchFound(normalize_author(firstRefAuthor(parsed[1])), target_author)

\* one pass of the loop over references.splitlines(): is this the line returned
isReferenceFor(line, target_author, year_part) ==
    line # "" /\ lineMatches(parse_reference(line), target_author, year_part)

\* the loop over references.splitlines(), from line k on
RECURSIVE scanReferences(_, _, _, _)
scanReferences(lines, k, target_author, year_part) ==
    IF k > Len(lines) THEN None
    ELSE IF isReferenceFor(strip(lines[k]), target_author, year_part) THEN strip(lines[k])
    ELSE scanReferences(lines, k + 1, target_author, year_part)

get_reference_line_by_author_year(references, target_author, year_part) ==
    IF references = "" \/ target_author = "" \/ year_part = "" THEN None
    ELSE scanReferences(splitlines(references), 1, normalize_author(target_author), year_part)

\* one pass of the loop over bib_database.entries: is this the entry returned
isEntryFor(entry, target_title) ==
    /\ "title" \in DOMAIN entry
    /\ normalize_title(replace(replace(entry.title, "{", ""), "}", "")) = target_title

\* the loop over bib_database.entries, from entry k on
RECURSIVE scanEntries(_, _, _)
scanEntries(entries, k, target_title) ==
    IF k > Len(entries) THEN None
    ELSE IF isEntryFor(entries[k], target_title) THEN entries[k].ID
    ELSE scanEntries(entries, k + 1, target_title)

get_reference_key(reference_line, entries) ==
    IF reference_line = "" THEN None
    ELSE scanEntries(entries, 1, parse_reference(reference_line)[3])

----------------------------------------------------------------------------
(* The first author of a citation                                          *)

\* the first place at or after i where ", ", " & " or " and " starts, 0 if none
RECURSIVE findSeparator(_, _)
findSeparator(s, i) ==
    IF i > Len(s) THEN 0
    ELSE IF StartsAt(s, i, ", ") \/ StartsAt(s, i, " & ") \/ StartsAt(s, i, " and ") THEN i
    ELSE findSeparator(s, i + 1)

\* re.split(r', | & | and ', s)[0]
reSplitFirst(s) == before(s, findSeparator(s, 1))

\* "if ' ' in first_author: first_author = first_author.split()[-1]"
surnameOf(first_author) ==
    IF contains(first_author, " ") THEN lastToken(first_author) ELSE first_author

\* the "Handle corporate authors" block of both callbacks
firstAuthorOf(author_part) ==
    IF contains(author_part, "&") \/ contains(author_part, " and ") THEN author_part
    ELSE IF contains(author_part, "et al.")
         THEN surnameOf(strip(splitFirst(splitFirst(author_part, "et al."), ",")))
    ELSE surnameOf(strip(splitFirst(reSplitFirst(author_part), ",")))

\* author and year to a bibliography key, None when either lookup fails
\* (get_reference_key returns None for the None of a line that was not found)
resolveKey(first_author, year, refs, entries) ==
    IF first_author = "" THEN None
    ELSE get_reference_key(
             get_reference_line_by_author_year(refs, normalize_author(first_author), year),
             entries)

----------------------------------------------------------------------------
(* process_citation: the callback of the parenthetical pass                *)

\* re.sub(r'^(e\.g\.,|i\.e\.,)\s*', '', group_content, re.IGNORECASE): the fourth
\* argument is count, so the pattern is matched with the case as written
stripMarker(group_content) ==
    IF StartsAt(group_content, 1, "e.g.,") \/ StartsAt(group_content, 1, "i.e.,")
    THEN lstrip(From(group_content, 6))
    ELSE group_content

\* the place of the first character of a \d{4}[a-z]? that ends at place e, 0 if
\* there is none
yearEndingAt(s, e) ==
    IF e >= 5 /\ Ch(s, e) \in Lower /\ FourDigits(s, e - 4) THEN e - 4
    ELSE IF e >= 4 /\ e <= Len(s) /\ FourDigits(SubSeq(s, 1, e), e - 3) THEN e - 3
    ELSE 0

\* the least j such that s[j..i] is whitespace (i + 1 if s[i] is not)
RECURSIVE spaceRunStart(_, _)
spaceRunStart(s, i) ==
    IF i >= 1 /\ Ch(s, i) \in Space THEN spaceRunStart(s, i - 1) ELSE i + 1

\* re.search(r',\s*\d{4}[a-z]?$', citation): the place of the comma, 0 if no match
commaBefore(citation, y) ==
    IF y # 0 /\ StartsAt(citation, spaceRunStart(citation, y - 1) - 1, ",")
    THEN spaceRunStart(citation, y - 1) - 1
    ELSE 0

commaYear(citation) == commaBefore(citation, yearEndingAt(citation, Len(citation)))

\* re.search(r'\d{4}[a-z]?\)$', citation): the place of the year, 0 if no match
yearClose(citation) ==
    IF citation # "" /\ Ch(citation, Len(citation)) = ")"
    THEN yearEndingAt(citation, Len(citation) - 1)
    ELSE 0

\* re.search(r'Section\s+\d+', citation, re.IGNORECASE) is not None
\* \s+\d at i
spaceThenDigit(s, i) ==
    /\ i <= Len(s) /\ Ch(s, i) \in Space
    /\ lstrip(From(s, i)) # "" /\ Ch(lstrip(From(s, i)), 1) \in Digit

RECURSIVE hasSection(_, _)
hasSection(citation, i) ==
    IF i + 6 > Len(citation) THEN FALSE
    ELSE IF lower(SubSeq(citation, i, i + 6)) = "section"
            /\ spaceThenDigit(citation, i + 7)
         THEN TRUE
    ELSE hasSection(citation, i + 1)

NoMatch == <<>>

\* re.match(r'^(.*?[^,])\s*,\s*(\d{4}[a-z]?)$', citation): <<group 1, group 2>>.
\* Group 1 is the shortest prefix that does not end in a comma, holds no line
\* break before its last character, and is followed by \s*,\s*year.
\* the least k in r..c for which citation[:k-1] can be group 1, 0 if none
RECURSIVE groupEnd(_, _, _)
groupEnd(citation, r, c) ==
    IF r > c THEN 0
    ELSE IF r >= 2 /\ Ch(citation, r - 1) # "," /\ ~contains(SubSeq(citation, 1, r - 2), "\n")
         THEN r
    ELSE groupEnd(citation, r + 1, c)

\* the groups, k being the place where \s*,\s*year starts
groupsAt(citation, k) ==
    IF k = 0 THEN NoMatch
    ELSE <<SubSeq(citation, 1, k - 1), From(citation, yearEndingAt(citation, Len(citation)))>>

\* the groups, c being the place of the comma
groupsAtComma(citation, c) ==
    IF c = 0 THEN NoMatch
    ELSE groupsAt(citation, groupEnd(citation, spaceRunStart(citation, c - 1), c))

matchAuthorCommaYear(citation) == groupsAtComma(citation, commaYear(citation))

\* re.match(r'^([^(]+?)\s*\((\d{4}[a-z]?)\)$', citation): <<group 1, group 2>>
\* the greater of 2 and r
atLeastTwo(r) == IF r >= 2 THEN r ELSE 2

\* the groups, y being the place of the year
groupsAtYear(citation, y) ==
    IF y < 3 \/ Ch(citation, y - 1) # "(" \/ contains(SubSeq(citation, 1, y - 2), "(")
    THEN NoMatch
    ELSE <<SubSeq(citation, 1, atLeastTwo(spaceRunStart(citation, y - 2)) - 1),
           SubSeq(citation, y, Len(citation) - 1)>>

matchAuthorParenYear(citation) == groupsAtYear(citation, yearClose(citation))

\* a or b of the two "Flexible citation patterns"
orElse(first_match, citation) ==
    IF first_match # NoMatch THEN first_match ELSE matchAuthorParenYear(citation)

citationMatch(citation) == orElse(matchAuthorCommaYear(citation), citation)

\* the key of a matched citation, None at a "continue"
keyOfMatch(citation_match, refs, entries) ==
    IF citation_match = NoMatch THEN None
    ELSE resolveKey(firstAuthorOf(strip(citation_match[1])), strip(citation_match[2]),
                    refs, entries)

\* one pass of "for citation in citations": the key, or None at a "continue"
citationKey(citation, refs, entries) ==
    IF commaYear(citation) = 0 /\ yearClose(citation) = 0 THEN None
    ELSE IF hasSection(citation, 1) THEN None
    ELSE keyOfMatch(citationMatch(replace(citation, "\\&", "&")), refs, entries)

\* [c.strip() for c in group_content.split(';')] after the marker is stripped
stripAll(parts) == [k \in 1..Len(parts) |-> strip(parts[k])]

subCitations(group_content) == stripAll(split(stripMarker(group_content), ";"))

\* "if not key: continue; keys.append(key)"
appended(key) == IF key = None THEN <<>> ELSE <<key>>

\* keys as a loop that stopped at the first citation without a key would leave them
RECURSIVE keysUntilFailure(_, _, _, _)
keysUntilFailure(citations, k, refs, entries) ==
    IF k > Len(citations) \/ citationKey(citations[k], refs, entries) = None THEN <<>>
    ELSE <<citationKey(citations[k], refs, entries)>>
             \o keysUntilFailure(citations, k + 1, refs, entries)

\* keys, in the order of the citations
RECURSIVE collectKeys(_, _, _, _)
collectKeys(citations, k, refs, entries) ==
    IF k > Len(citations) THEN <<>>
    ELSE appended(citationKey(citations[k], refs, entries))
             \o collectKeys(citations, k + 1, refs, entries)

\* the text returned when keys is not empty
citepText(original, keys) ==
    IF contains(lower(original), "e.g.")
    THEN "(e.g., \\citep{" \o join(keys, ",") \o "})"
    ELSE "\\citep{" \o join(keys, ",") \o "}"

\* the callback as it would be if it returned group 1 where it returns group 0
citeOrContent(original, keys) ==
    IF keys # <<>> THEN [text |-> citepText(original, keys), count |-> Len(keys)]
    ELSE [text |-> SubSeq(original, 2, Len(original) - 1), count |-> 0]

\* [text |-> the replacement, count |-> the increase of conversion_count]
\* "if keys: ... else: return original"
citeOrKeep(original, keys) ==
    IF keys # <<>> THEN [text |-> citepText(original, keys), count |-> Len(keys)]
    ELSE [text |-> original, count |-> 0]

process_citation(original, group_content, refs, entries) ==
    IF ~hasYear(group_content, 1) THEN [text |-> original, count |-> 0]
    ELSE citeOrKeep(original, collectKeys(subCitations(group_content), 1, refs, entries))

----------------------------------------------------------------------------
(* process_textual_citation: the callback of the narrative pass            *)

\* the alternatives of the "Enhanced phrase removal" pattern, in its order; the
\* pattern's "aligns? with" is written as its two readings, and its last
\* alternative is the empty one
StopPhrases ==
    <<"For instance", "Similarly", "Building upon", "For example", "In contrast",
      "Additionally", "Specifically", "following", "adopting", "However",
      "Our findings", "further", "suggesting", "aligns with", "align with",
      "Comparison with", "In this", "Contrary to", "While", "Finally",
      "This robust test", "This robustness test", "informed by", "This result",
      "By replacing", "By", "UET, introduced by", "noindent",
      "This theory, as articulated by", "as defined by",
      "We adopt the methodology of", "Following", "However, our results",
      "Our findings", "Contrary to expectations", "">>

StopPhrasesLower == [k \in 1..Len(StopPhrases) |-> lower(StopPhrases[k])]

\* the first alternative that the text starts with, the case ignored
RECURSIVE firstPhrase(_, _)
firstPhrase(low, k) ==
    IF StartsAt(low, 1, StopPhrasesLower[k]) THEN k ELSE firstPhrase(low, k + 1)

\* re.sub(r'^(For instance|...|),?\s*', '', authors_text, flags=re.IGNORECASE)
\* the text without its first n characters, the ",?" and the "\s*" after them
dropPhrase(authors_text, n) ==
    lstrip(From(authors_text, n + (IF StartsAt(authors_text, n + 1, ",") THEN 1 ELSE 0) + 1))

stripPhrase(authors_text) ==
    dropPhrase(authors_text, Len(StopPhrases[firstPhrase(lower(authors_text), 1)]))

\* re.sub(r'^noindent\s+', '', authors_text, re.IGNORECASE): count, not flags
stripNoindent(authors_text) ==
    IF StartsAt(authors_text, 1, "noindent")
       /\ Len(authors_text) > 8 /\ Ch(authors_text, 9) \in Space
    THEN lstrip(From(authors_text, 9))
    ELSE authors_text

\* the author text the callback looks up, from group 1 of the match
authorsText(group1) ==
    stripNoindent(strip(stripPhrase(strip(replace(group1, "\\&", "&")))))

\* the text returned on success
citetText(key) == "\\citet{" \o key \o "}"

\* the callback as it would be if a failed lookup returned nothing for the match
citeOrNothing(original, key) ==
    IF key # None THEN [text |-> citetText(key), count |-> 1]
    ELSE [text |-> "", count |-> 0]

\* [text |-> the replacement, count |-> the increase of conversion_count]
\* "if key: ... else: return match.group(0)"
citeOrReturn(original, key) ==
    IF key # None THEN [text |-> citetText(key), count |-> 1]
    ELSE [text |-> original, count |-> 0]

process_textual_citation(original, group1, year_text, refs, entries) ==
    citeOrReturn(original,
                 resolveKey(firstAuthorOf(authorsText(group1)), year_text, refs, entries))

----------------------------------------------------------------------------
(* The two patterns of re.sub                                              *)

\* [A-Za-z\s,&]
AuthorClass == Upper \cup Lower \cup Space \cup {",", "&"}

\* the first place at or after i whose character is not in [A-Za-z\s,&]
RECURSIVE classEnd(_, _)
classEnd(s, i) ==
    IF i <= Len(s) /\ Ch(s, i) \in AuthorClass THEN classEnd(s, i + 1) ELSE i

NoSpan == [start |-> 0, end |-> 0, group1 |-> "", group2 |-> ""]

\* the first place at or after i whose character is not whitespace
RECURSIVE skipSpace(_, _)
skipSpace(s, i) == IF i <= Len(s) /\ Ch(s, i) \in Space THEN skipSpace(s, i + 1) ELSE i

\* the span from i to the ")" of the year, the year having n characters after open.
\* Group 1 is given without the whitespace that may end it (the callback strips it).
spanOf(s, i, open, n) ==
    [start |-> i, end |-> open + n + 2,
     group1 |-> rstrip(SubSeq(s, i, open - 1)),
     group2 |-> SubSeq(s, open + 1, open + n)]

\* \((\d{4}[a-z]?)\) at open, for a match that starts at i
spanAt(s, i, open) ==
    IF open <= Len(s) /\ Ch(s, open) = "(" /\ YearThen(s, open + 1, ")") # 0
    THEN spanOf(s, i, open, YearThen(s, open + 1, ")"))
    ELSE NoSpan

\* p is the "." of an "et al." that whitespace and, before it, at least one
\* character after the capital at i precede
isEtAl(s, i, p) ==
    /\ p <= Len(s) /\ Ch(s, p) = "."
    /\ p - 5 >= i + 3
    /\ SubSeq(s, p - 5, p - 1) = "et al"
    /\ Ch(s, p - 6) \in Space

\* the match at i, p being the first place after i whose character is outside
\* [A-Za-z\s,&]: the "(" itself, after at least one character of the class, or
\* the "." of "et al.", which \s* and the "(" follow
narrativeFrom(s, i, p) ==
    IF isEtAl(s, i, p) THEN spanAt(s, i, skipSpace(s, p + 1))
    ELSE IF p >= i + 2 THEN spanAt(s, i, p)
    ELSE NoSpan

\* ([A-Z][A-Za-z\s,&]+?(?:\s+et al\.?)?)\s*\((\d{4}[a-z]?)\) matched at i
narrativeAt(s, i) ==
    IF Ch(s, i) \notin Upper THEN NoSpan ELSE narrativeFrom(s, i, classEnd(s, i + 1))

RECURSIVE narrativeSearch(_, _)

\* the match m at i if there is one, else the search from i + 1
RECURSIVE narrativeOr(_, _, _)
narrativeOr(m, s, i) == IF m.start # 0 THEN m ELSE narrativeSearch(s, i + 1)

\* the leftmost match of the narrative pattern at or after i
narrativeSearch(s, i) ==
    IF i > Len(s) THEN NoSpan ELSE narrativeOr(narrativeAt(s, i), s, i)

RECURSIVE parenSearch(_, _)

\* the match from the "(" at open to the ")" at close
parenTo(s, open, close) ==
    IF close = 0 THEN NoSpan
    ELSE IF close = open + 1 THEN parenSearch(s, open + 1)
    ELSE [start |-> open, end |-> close + 1,
          group1 |-> SubSeq(s, open + 1, close - 1), group2 |-> ""]

parenFrom(s, open) == IF open = 0 THEN NoSpan ELSE parenTo(s, open, find(s, ")", open + 1))

\* the leftmost match of \(([^)]+)\) at or after i
parenSearch(s, i) == parenFrom(s, find(s, "(", i))

----------------------------------------------------------------------------
(* Messages and json.dumps                                                 *)

ParseErrorMessage(e) == "Error parsing BibTeX file: " \o e

SuccessMessage(count) == CHECK \o " Successfully converted " \o str(count) \o " citations"

WarningMessage == WARN \o VS16 \o " No citations were converted. Please check your input formats"

\* the summary message of apa2tex
summaryMessage(count) == IF count > 0 THEN SuccessMessage(count) ELSE WarningMessage

\* json.dumps of one character of a string (ensure_ascii)
jsonChar(c) ==
    CASE c = "\"" -> "\\\""
      [] c = "\\" -> "\\\\"
      [] c = "\n" -> "\\n"
      [] c = "\r" -> "\\r"
      [] c = "\t" -> "\\t"
      [] c = "\f" -> "\\f"
      [] c = CHECK -> "\\u2705"
      [] c = WARN -> "\\u26a0"
      [] c = VS16 -> "\\ufe0f"
      [] c = RSQUO -> "\\u2019"
      [] c = LSQUO -> "\\u2018"
      [] OTHER -> c

RECURSIVE jsonEscape(_)
jsonEscape(s) == IF s = "" THEN "" ELSE jsonChar(Ch(s, 1)) \o jsonEscape(From(s, 2))

\* json.dumps(messages), messages a list of strings
json_dumps(msgs) ==
    "[" \o join([k \in 1..Len(msgs) |-> "\"" \o jsonEscape(msgs[k]) \o "\""], ", ") \o "]"

----------------------------------------------------------------------------
(* The inputs                                                              *)

\* the most sub-citations of a generated parenthetical group
MaxGroup == 2
\* the most runs of the converter, each on the output of the run before
MaxRuns == 2

\* What bibtexparser.loads makes of a bibliography text: it raises, or gives
\* the entries (each with its ID and its fields).
loads(bib) == bib

BibTexts ==
    { [raises |-> TRUE, error |-> "bad bib", entries |-> <<>>],
      [raises |-> TRUE, error |-> "Expected \"}\" at line 3", entries |-> <<>>],
      [raises |-> FALSE, error |-> "",
       entries |-> << [ID |-> "untitled2020"],
                      [ID |-> "smith2020", title |-> "{A} Study of Things"],
                      [ID |-> "byrne2019", title |-> "Heads: A {L}ife"],
                      [ID |-> "smithjones2021", title |-> "Joint Work"],
                      [ID |-> "doe1999", title |-> "Other work"] >>],
      [raises |-> FALSE, error |-> "",
       entries |-> << [ID |-> "lee2005", title |-> "Unrelated"] >>] }

ReferenceLists ==
    { "Smith, J. (2020). A Study of Things. Journal X.\n"
        \o "Byrne, D. (2019). Heads: a life. Journal Y.\n"
        \o "\n"
        \o "Smith, J., & Jones, K. (2021). Joint work. Journal Z.\n"
        \o "Doe, R. (1999). Other work. Journal X.\n"
        \o "Roe, P. (2001a). Not in the bibliography. Journal Y.",
      "Unparsed line without a year\n"
        \o "Doe, R. (1999). Other work. Journal X.\n" }

SubCitations == {"Smith, 2020", "Doe, 1999", "Roe, 2001a"}

Groups == UNION {[1..n -> SubCitations] : n \in 1..MaxGroup}

Markers == {"", "e.g., ", "i.e., "}

ParentheticalDocuments ==
    {"This finding (" \o m \o join(g, "; ") \o ") is notable." : m \in Markers, g \in Groups}

Leads == {"", "However, ", "Recent work by "}

NarrativeCitations == {"Smith (2020)", "Byrne (2019)", "Roe (2001a)", "Smith et al. (2020)"}

NarrativeDocuments ==
    {l \o c \o " showed X." : l \in Leads, c \in NarrativeCitations}

MixedDocuments ==
    { "(see Smith (2020); Doe, 1999)",
      "(see Smith (2020))",
      "(Smith, 2020; see e.g. Roe)",
      "(Smith & Jones, 2021)",
      "(Doe, 1999)",
      "Smith (2020) agrees (e.g., Doe, 1999; Smith, 2020).",
      "As noted (in Section 2), nothing () is cited." }

Documents == ParentheticalDocuments \cup NarrativeDocuments \cup MixedDocuments

----------------------------------------------------------------------------
(* The converter: main, apa2tex and the two re.sub passes                  *)

VARIABLES
    input_refs,         \* refs_text
    input_tex,          \* tex_text
    bib_text,           \* bib_text, as what bibtexparser.loads makes of it
    run,                \* which run of main this is
    pc,                 \* where main is
    converted_tex,      \* the text the running pass scans; the text after the passes
    pos,                \* re.sub: the place the search for the next match starts
    out,                \* re.sub: the text put together so far
    conversion_count,
    messages,
    returned,           \* the dictionary apa2tex returns
    result,             \* the pair main returns
    last                \* the last call of a callback: its match and what it returned

vars == <<input_refs, input_tex, bib_text, run, pc, converted_tex, pos, out,
          conversion_count, messages, returned, result, last>>

NoCall == [pass |-> "none", original |-> "", group1 |-> "", group2 |-> "", text |-> ""]
NoReturn == [output |-> "", messages |-> <<>>]
NoResult == <<>>

Init ==
    /\ input_refs \in ReferenceLists
    /\ input_tex \in Documents
    /\ bib_text \in BibTexts
    /\ run = 1
    /\ pc = "main"
    /\ converted_tex = ""
    /\ pos = 1
    /\ out = ""
    /\ conversion_count = 0
    /\ messages = <<>>
    /\ returned = NoReturn
    /\ result = NoResult
    /\ last = NoCall

\* the return as it would be if the summary were added to the error message
parseFailureWithSummary(original_tex, e) ==
    [output |-> original_tex, messages |-> <<WarningMessage, ParseErrorMessage(e)>>]

\* what apa2tex returns when bibtexparser.loads raises e
parseFailure(original_tex, e) ==
    [output |-> original_tex, messages |-> <<ParseErrorMessage(e)>>]

\* apa2tex up to the first re.sub: the bibliography is parsed
LoadBibliography ==
    /\ pc = "main"
    /\ IF loads(bib_text).raises
       THEN /\ returned' = parseFailure(input_tex, loads(bib_text).error)
            /\ messages' = returned'.messages
            /\ pc' = "return"
       ELSE /\ pc' = "narrative"
            /\ UNCHANGED <<returned, messages>>
    /\ UNCHANGED <<input_refs, input_tex, bib_text, run, converted_tex, pos, out,
                   conversion_count, result, last>>

\* re.sub puts the text before the match m and what the callback returned, r,
\* after what it has, and goes on behind the match
substitute(pass, text, m, r) ==
    /\ out' = out \o SubSeq(text, pos, m.start - 1) \o r.text
    /\ pos' = m.end
    /\ conversion_count' = conversion_count + r.count
    /\ last' = [pass |-> pass, original |-> SubSeq(text, m.start, m.end - 1),
                group1 |-> m.group1, group2 |-> m.group2, text |-> r.text]
    /\ UNCHANGED <<input_refs, input_tex, bib_text, run, pc, converted_tex, messages,
                   returned, result>>

narrativeCall(m) ==
    /\ m.start # 0
    /\ substitute("narrative", input_tex, m,
                  process_textual_citation(SubSeq(input_tex, m.start, m.end - 1),
                                           m.group1, m.group2,
                                           input_refs, loads(bib_text).entries))

\* re.sub of the narrative pattern over input_tex: one match and its callback
NarrativeMatch ==
    /\ pc = "narrative"
    /\ narrativeCall(narrativeSearch(input_tex, pos))

\* the narrative re.sub finds no further match and returns
NarrativeDone ==
    /\ pc = "narrative"
    /\ narrativeSearch(input_tex, pos).start = 0
    /\ converted_tex' = out \o From(input_tex, pos)
    /\ pc' = "parenthetical"
    /\ pos' = 1
    /\ out' = ""
    /\ UNCHANGED <<input_refs, input_tex, bib_text, run, conversion_count, messages,
                   returned, result, last>>

parentheticalCall(m) ==
    /\ m.start # 0
    /\ substitute("parenthetical", converted_tex, m,
                  process_citation(SubSeq(converted_tex, m.start, m.end - 1), m.group1,
                                   input_refs, loads(bib_text).entries))

\* re.sub of the parenthetical pattern over converted_tex: one match and its callback
ParentheticalMatch ==
    /\ pc = "parenthetical"
    /\ parentheticalCall(parenSearch(converted_tex, pos))

\* the parenthetical re.sub finds no further match and returns
ParentheticalDone ==
    /\ pc = "parenthetical"
    /\ parenSearch(converted_tex, pos).start = 0
    /\ converted_tex' = out \o From(converted_tex, pos)
    /\ pc' = "summary"
    /\ pos' = 1
    /\ out' = ""
    /\ UNCHANGED <<input_refs, input_tex, bib_text, run, conversion_count, messages,
                   returned, result, last>>

\* messages.insert(0, ...) and the return of apa2tex
Summarize ==
    /\ pc = "summary"
    /\ messages' = <<summaryMessage(conversion_count)>> \o messages
    /\ returned' = [output |-> converted_tex, messages |-> messages']
    /\ pc' = "return"
    /\ UNCHANGED <<input_refs, input_tex, bib_text, run, converted_tex, pos, out,
                   conversion_count, result, last>>

\* main returns (result["output"], json.dumps(result["messages"]))
Return ==
    /\ pc = "return"
    /\ result' = <<returned.output, json_dumps(returned.messages)>>
    /\ pc' = "done"
    /\ UNCHANGED <<input_refs, input_tex, bib_text, run, converted_tex, pos, out,
                   conversion_count, messages, returned, last>>

\* main is called again, on the text it returned, with the same reference list
\* and bibliography
Rerun ==
    /\ pc = "done"
    /\ run < MaxRuns
    /\ ~loads(bib_text).raises
    /\ input_tex' = result[1]
    /\ run' = run + 1
    /\ pc' = "main"
    /\ converted_tex' = ""
    /\ pos' = 1
    /\ out' = ""
    /\ conversion_count' = 0
    /\ messages' = <<>>
    /\ returned' = NoReturn
    /\ result' = NoResult
    /\ last' = NoCall
    /\ UNCHANGED <<input_refs, bib_text>>

Next ==
    \/ LoadBibliography
    \/ NarrativeMatch
    \/ NarrativeDone
    \/ ParentheticalMatch
    \/ ParentheticalDone
    \/ Summarize
    \/ Return
    \/ Rerun

Spec == Init /\ [][Next]_vars

----------------------------------------------------------------------------
(* Properties                                                              *)

\* the bibliography was parsed: apa2tex went on to the two passes
Parsed == ~loads(bib_text).raises

entries == loads(bib_text).entries

\* the lines of the reference list the lookup goes through
referenceLines == splitlines(input_refs)

\* the number of bibliography keys in the \citet{...} and \citep{...} macros of s:
\* one for each macro and one more for each comma before its "}"
RECURSIVE keysToBrace(_, _)
keysToBrace(s, i) ==
    IF i > Len(s) \/ Ch(s, i) = "}" THEN 1
    ELSE (IF Ch(s, i) = "," THEN 1 ELSE 0) + keysToBrace(s, i + 1)

RECURSIVE macroKeys(_, _)
macroKeys(s, i) ==
    IF i > Len(s) THEN 0
    ELSE IF StartsAt(s, i, "\\citet{") \/ StartsAt(s, i, "\\citep{")
         THEN keysToBrace(s, i + 7) + macroKeys(s, i + 7)
    ELSE macroKeys(s, i + 1)

\* the surnames and years of the narrative citations 'A (Y) showed X.'
Surnames == {"Smith", "Byrne", "Roe", "Doe"}
Years == {"2020", "2019", "2001a", "1999"}

\* line is a reference of first author A and year Y whose title is that of entry
citedBy(line, A, Y, entry) ==
    /\ firstRefAuthor(parse_reference(line)[1]) = A
    /\ parse_reference(line)[2] = Y
    /\ isEntryFor(entry, parse_reference(line)[3])

\* C2: when main has returned for the document 'A (Y) showed X.', A a capitalised
\* surname, and the reference list has a line of first author A and year Y whose
\* normalized title is that of the bibliography entry K, the output is
\* '\citet{K} showed X.' and the summary reports one conversion.
C2_NarrativeEndToEnd ==
    (pc = "done" /\ Parsed)
    => \A A \in Surnames, Y \in Years :
           input_tex = A \o " (" \o Y \o ") showed X."
           => \A l \in 1..Len(referenceLines), k \in 1..Len(entries) :
                  (/\ strip(referenceLines[l]) # ""
                   /\ citedBy(strip(referenceLines[l]), A, Y, entries[k]))
                  => /\ result[1] = "\\citet{" \o entries[k].ID \o "} showed X."
                     /\ returned.messages[1] = SuccessMessage(1)

\* the authors and years of the generated parenthetical sub-citations
CitedAuthors == {"Smith", "Doe", "Roe"}

\* some returned message names both the author and the year
diagnosed(A, Y) ==
    \E k \in 1..Len(returned.messages) :
        contains(returned.messages[k], A) /\ contains(returned.messages[k], Y)

\* C3: when main has returned and the document holds a citation '(A, Y)' that does
\* not resolve to a bibliography key, some returned message names A and Y.
C3_FailureDiagnostics ==
    \A A \in CitedAuthors, Y \in Years :
        (/\ pc = "done" /\ Parsed
         /\ contains(input_tex, "(" \o A \o ", " \o Y \o ")")
         /\ resolveKey(A, Y, input_refs, entries) = None)
        => diagnosed(A, Y)

\* C7: a span the parenthetical pass converted is '(e.g., \citep{keys})' when its
\* content began with the marker 'e.g.,', and the bare '\citep{keys}' otherwise.
C7_EgPrefixOnlyForLeadingMarker ==
    (last.pass = "parenthetical" /\ last.text # last.original)
    => IF StartsAt(last.group1, 1, "e.g.,")
       THEN StartsAt(last.text, 1, "(e.g., \\citep{")
       ELSE StartsAt(last.text, 1, "\\citep{")

\* the three tiers as alternatives, each tried when the ones before it fail
anyTier(first_ref_author_norm, target_author) ==
    \/ first_ref_author_norm = target_author
    \/ /\ tokens(first_ref_author_norm) # <<>> /\ tokens(target_author) # <<>>
       /\ lastToken(first_ref_author_norm) = lastToken(target_author)
    \/ \E k \in 1..Len(tokens(first_ref_author_norm)) :
           contains(target_author, tokens(first_ref_author_norm)[k])

\* the line is of the query's year and its first author matches by some tier
tierMatch(line, target_author, year_part) ==
    /\ line # ""
    /\ parse_reference(line)[2] = year_part
    /\ anyTier(normalize_author(firstRefAuthor(parse_reference(line)[1])), target_author)

\* the first line, from line k on, that matches by some tier
RECURSIVE firstTierMatch(_, _, _, _)
firstTierMatch(lines, k, target_author, year_part) ==
    IF k > Len(lines) THEN None
    ELSE IF tierMatch(strip(lines[k]), target_author, year_part) THEN strip(lines[k])
    ELSE firstTierMatch(lines, k + 1, target_author, year_part)

\* the author and year process_citation looks up for a span of one sub-citation
queryAuthor(group1) == normalize_author(firstAuthorOf(strip(citationMatch(group1)[1])))
queryYear(group1) == strip(citationMatch(group1)[2])

\* the parenthetical callback ran on a span of one sub-citation and looked it up
lookedUp ==
    /\ last.pass = "parenthetical"
    /\ ~contains(last.group1, ";")
    /\ citationMatch(last.group1) # NoMatch
    /\ queryAuthor(last.group1) # ""

\* C8: the line get_reference_line_by_author_year returns for the author and year
\* of a looked-up citation is the first line of that year whose first author
\* matches the query by tier 1, else tier 2, else tier 3.
C8_LookupTierOrder ==
    lookedUp
    => get_reference_line_by_author_year(input_refs, queryAuthor(last.group1),
                                         queryYear(last.group1))
       = firstTierMatch(referenceLines, 1, queryAuthor(last.group1), queryYear(last.group1))

\* C9: when main has returned after both passes, the count of the summary message
\* is the number of keys in the macros of the output that the run generated.
C9_CountMatchesOutput ==
    (pc = "done" /\ Parsed)
    => returned.messages[1]
       = summaryMessage(macroKeys(result[1], 1) - macroKeys(input_tex, 1))

\* C10: when main has returned for a document that opens with the words l before a
\* narrative citation and the narrative pass converted the citation, the output
\* still opens with l.
C10_LeadingWordsKept ==
    \A l \in Leads, c \in NarrativeCitations :
        (/\ pc = "done" /\ Parsed /\ run = 1
         /\ input_tex = l \o c \o " showed X."
         /\ contains(result[1], "\\citet{"))
        => StartsAt(result[1], 1, l)

\* the text is one or more letters, the first a capital
isSurname(a) ==
    /\ a # "" /\ Ch(a, 1) \in Upper
    /\ \A i \in 1..Len(a) : Ch(a, i) \in Upper \cup Lower

\* the text is YYYY or YYYY and a letter
isYear(y) ==
    /\ Len(y) \in {4, 5} /\ \A i \in 1..4 : Ch(y, i) \in Digit
    /\ Len(y) = 5 => Ch(y, 5) \in Lower

\* a sub-citation of the form 'Author, YYYY[letter]'
isAuthorYear(c) ==
    /\ find(c, ", ", 1) > 1
    /\ isSurname(before(c, find(c, ", ", 1)))
    /\ isYear(From(c, find(c, ", ", 1) + 2))

\* the pieces between the ";" of a span's content, the blanks around them dropped
pieces(group1) == stripAll(split(group1, ";"))

\* every piece of the content is of the form 'Author, YYYY[letter]'
isGroup(group1) == \A k \in 1..Len(pieces(group1)) : isAuthorYear(pieces(group1)[k])

\* the key a sub-citation 'Author, YYYY[letter]' resolves to, None if it does not:
\* the reference line by author and year, then the entry by normalized title
keyOf(c) ==
    get_reference_key(
        get_reference_line_by_author_year(input_refs,
                                          normalize_author(before(c, find(c, ", ", 1))),
                                          From(c, find(c, ", ", 1) + 2)),
        entries)

\* the keys of the pieces from piece k on that resolve, in their order
RECURSIVE resolvedKeys(_, _)
resolvedKeys(cs, k) ==
    IF k > Len(cs) THEN <<>>
    ELSE (IF keyOf(cs[k]) = None THEN <<>> ELSE <<keyOf(cs[k])>>) \o resolvedKeys(cs, k + 1)

\* C1: a span whose content splits on ";" into sub-citations 'Author, YYYY[letter]'
\* is replaced by one \citep macro of the keys of those that resolve, in their
\* order, and is returned as it was when none resolves.
C1_GroupedCitation ==
    (last.pass = "parenthetical" /\ isGroup(last.group1))
    => last.text = IF resolvedKeys(pieces(last.group1), 1) = <<>> THEN last.original
                   ELSE "\\citep{" \o join(resolvedKeys(pieces(last.group1), 1), ",") \o "}"

\* a group of two whose first sub-citation did not resolve and whose second did
C1_Witness ==
    /\ last.pass = "parenthetical" /\ isGroup(last.group1)
    /\ Len(pieces(last.group1)) = 2
    /\ keyOf(pieces(last.group1)[1]) = None
    /\ last.text = "\\citep{doe1999}"

\* no title of the bibliography is the title of a line of the reference list
noKeyAtAll ==
    \A l \in 1..Len(referenceLines) :
        get_reference_key(strip(referenceLines[l]), entries) = None

\* C4: when the bibliography was parsed and no citation resolved, main returns the
\* document as it was and the warning as the only message; and a citation
\* resolves only when some reference line has an entry in the bibliography.
C4_UnresolvedUnchanged ==
    /\ (pc = "done" /\ Parsed /\ conversion_count = 0)
       => /\ result[1] = input_tex
          /\ returned.messages = <<WarningMessage>>
    /\ (Parsed /\ conversion_count # 0) => ~noKeyAtAll

\* main returned after each pass called its callback on a citation of the document
C4_Witness ==
    /\ pc = "done" /\ Parsed /\ conversion_count = 0 /\ run = 1
    /\ input_tex = "Smith (2020) agrees (e.g., Doe, 1999; Smith, 2020)."
    /\ last.pass = "parenthetical"
    /\ result[1] = input_tex

\* json.loads: the number of characters that write one character of a string at
\* place i, and the character they write
jsonUnitLen(s, i) ==
    IF Ch(s, i) # "\\" THEN 1 ELSE IF Ch(s, i + 1) = "u" THEN 6 ELSE 2

jsonUnit(s, i) ==
    CASE Ch(s, i) # "\\" -> Ch(s, i)
      [] SubSeq(s, i, i + 1) = "\\n" -> "\n"
      [] SubSeq(s, i, i + 1) = "\\t" -> "\t"
      [] SubSeq(s, i, i + 1) = "\\r" -> "\r"
      [] SubSeq(s, i, i + 1) = "\\f" -> "\f"
      [] SubSeq(s, i, i + 5) = "\\u2705" -> CHECK
      [] SubSeq(s, i, i + 5) = "\\u26a0" -> WARN
      [] SubSeq(s, i, i + 5) = "\\ufe0f" -> VS16
      [] SubSeq(s, i, i + 5) = "\\u2019" -> RSQUO
      [] SubSeq(s, i, i + 5) = "\\u2018" -> LSQUO
      [] OTHER -> Ch(s, i + 1)

\* the place of the quote that closes the string whose text starts at i, 0 if none
RECURSIVE jsonClose(_, _)
jsonClose(s, i) ==
    IF i > Len(s) THEN 0
    ELSE IF Ch(s, i) = "\"" THEN i
    ELSE jsonClose(s, i + jsonUnitLen(s, i))

\* the string written from place i to the closing quote at place close
RECURSIVE jsonText(_, _, _)
jsonText(s, i, close) ==
    IF i >= close THEN ""
    ELSE jsonUnit(s, i) \o jsonText(s, i + jsonUnitLen(s, i), close)

\* json.loads of the items of a list of strings from place i on, <<>> when the
\* text is not such a list
RECURSIVE jsonItems(_, _)
jsonItems(s, i) ==
    IF ~StartsAt(s, i, "\"") \/ jsonClose(s, i + 1) = 0 THEN <<>>
    ELSE <<jsonText(s, i + 1, jsonClose(s, i + 1))>>
             \o (IF StartsAt(s, jsonClose(s, i + 1) + 1, ", ")
                 THEN jsonItems(s, jsonClose(s, i + 1) + 3)
                 ELSE <<>>)

json_loads(s) == IF StartsAt(s, 1, "[") THEN jsonItems(s, 2) ELSE <<>>

\* C5: when the bibliography text does not parse, main returns the document as it
\* was and the JSON text of a list of one message, the error message; no pass ran.
C5_ParseFailure ==
    (pc = "done" /\ ~Parsed)
    => /\ result[1] = input_tex
       /\ Len(json_loads(result[2])) = 1
       /\ json_loads(result[2])[1] = "Error parsing BibTeX file: " \o loads(bib_text).error
       /\ Ch(result[2], Len(result[2])) = "]"
       /\ last = NoCall /\ converted_tex = "" /\ conversion_count = 0

\* main returned after a parse error whose text JSON has to escape
C5_Witness ==
    /\ pc = "done" /\ ~Parsed
    /\ contains(loads(bib_text).error, "\"")
    /\ contains(input_tex, "(Smith, 2020)")
    /\ result[1] = input_tex

\* the macros of s from place i on, in their order: each \citet{...} or
\* \citep{...}, with the '(e.g., ' and ')' around it when it is wrapped in them
RECURSIVE macrosOf(_, _)
macrosOf(s, i) ==
    IF i > Len(s) THEN <<>>
    ELSE IF StartsAt(s, i, "\\citet{") \/ StartsAt(s, i, "\\citep{")
         THEN LET close == find(s, "}", i)
                  wrapped == /\ close # 0 /\ i > 7
                             /\ StartsAt(s, i - 7, "(e.g., ") /\ StartsAt(s, close + 1, ")")
                  macro == IF close = 0 THEN From(s, i)
                           ELSE IF wrapped THEN SubSeq(s, i - 7, close + 1)
                           ELSE SubSeq(s, i, close)
              IN  <<macro>> \o macrosOf(s, i + 7)
    ELSE macrosOf(s, i + 1)

\* xs from its item i on is found, in its order, in ys from its item j on
RECURSIVE isSubsequence(_, _, _, _)
isSubsequence(xs, i, ys, j) ==
    IF i > Len(xs) THEN TRUE
    ELSE IF j > Len(ys) THEN FALSE
    ELSE IF xs[i] = ys[j] THEN isSubsequence(xs, i + 1, ys, j + 1)
    ELSE isSubsequence(xs, i, ys, j + 1)

\* C6: in a run on the output of the run before, a callback called on a span that
\* holds a macro returns the span as it was, and the macros of the input, the
\* wrapped ones with their wrapping, are all in the output, in their order.
C6_MacrosSurviveRerun ==
    /\ (run > 1 /\ last.pass # "none" /\ contains(last.original, "\\cite"))
       => last.text = last.original
    /\ (run > 1 /\ pc = "done")
       => isSubsequence(macrosOf(input_tex, 1), 1, macrosOf(result[1], 1), 1)

\* the second run called a callback on a wrapped macro of the first and returned
C6_Witness ==
    /\ run > 1 /\ pc = "done"
    /\ last.pass = "parenthetical"
    /\ StartsAt(last.original, 1, "(e.g., \\citep{")
    /\ macrosOf(input_tex, 1) # <<>>

====
